---- MODULE Spec2Model ----
(***************************************************************************)
(* Model of src/script.py: the prompt registry (prompts_data, the file     *)
(* prompts.json, create/update/delete) and the slash-command resolver      *)
(* chat_input_modifier.                                                    *)
(*                                                                         *)
(* Strings that the code inspects character by character (commands, chat   *)
(* text, prompt content) are sequences of one-character strings.  Titles   *)
(* are only tested for emptiness and equality and are TLA+ strings; ""     *)
(* stands for both the empty string and None (both are falsy in Python).   *)
(* The dict prompts_data is a sequence of [key, value] entries with        *)
(* distinct keys, in insertion order, as a Python dict iterates.           *)
(* Timestamps are integers standing for the isoformat strings, ordered as  *)
(* the instants they denote.                                               *)
(***************************************************************************)
EXTENDS Integers, Sequences, FiniteSets, TLC

VARIABLES prompts_data, file, clock, phase, file_written, last

vars == <<prompts_data, file, clock, phase, file_written, last>>

\* ---------------------------------------------------------------- bounds
\* Largest reading of datetime.now() the model explores.
MaxClock == 2

\* ------------------------------------------------------------- constants
current_user == "default_user"

Slash == <<"/">>
Space == <<" ">>
InputToken == <<"{", "i", "n", "p", "u", "t", "}">>
BlankLine == <<"\n", "\n">>

\* ------------------------------------------------------ string primitives
\* s.startswith(p)
StartsWith(s, p) ==
    /\ Len(s) >= Len(p)
    /\ SubSeq(s, 1, Len(p)) = p

\* s.find(sub) from position `from` (1-based); 0 when absent.  sub is non-empty.
RECURSIVE Find(_, _, _)
Find(s, sub, from) ==
    IF from + Len(sub) - 1 > Len(s) THEN 0
    ELSE IF SubSeq(s, from, from + Len(sub) - 1) = sub THEN from
    ELSE Find(s, sub, from + 1)

\* sub in s
Contains(s, sub) == Find(s, sub, 1) # 0

\* s.replace(old, new): only the first occurrence (a faulty variant).
ReplaceFirstOnly(s, old, new) ==
    LET i == Find(s, old, 1)
    IN  IF i = 0 THEN s
        ELSE SubSeq(s, 1, i - 1) \o new \o SubSeq(s, i + Len(old), Len(s))

\* s.replace(old, new): every non-overlapping occurrence, scanning left to
\* right; the inserted text is not scanned again.
RECURSIVE Replace(_, _, _)
Replace(s, old, new) ==
    LET i == Find(s, old, 1)
    IN  IF i = 0 THEN s
        ELSE SubSeq(s, 1, i - 1) \o new
             \o Replace(SubSeq(s, i + Len(old), Len(s)), old, new)

\* position of the last occurrence of the one-character separator, 0 if none
RECURSIVE FindLast(_, _, _)
FindLast(s, sep, from) ==
    IF from < 1 THEN 0
    ELSE IF <<s[from]>> = sep THEN from
    ELSE FindLast(s, sep, from - 1)

\* text.rsplit(sep, 1): splits at the last separator (a faulty variant).
SplitAtLast(text, sep) ==
    LET i == FindLast(text, sep, Len(text))
    IN  IF i = 0 THEN <<text>>
        ELSE <<SubSeq(text, 1, i - 1), SubSeq(text, i + 1, Len(text))>>

\* text.split(sep, 1) for a one-character separator
Split1(text, sep) ==
    LET i == Find(text, sep, 1)
    IN  IF i = 0 THEN <<text>>
        ELSE <<SubSeq(text, 1, i - 1), SubSeq(text, i + 1, Len(text))>>

\* ------------------------------------------------------- dict primitives
Keys(d) == {d[i].key : i \in 1..Len(d)}

\* k in d
Has(d, k) == k \in Keys(d)

IndexOf(d, k) == CHOOSE i \in 1..Len(d) : d[i].key = k

\* d[k]
Get(d, k) == d[IndexOf(d, k)].value

\* d[k] = v : replaces in place, or appends a new key
Put(d, k, v) ==
    IF Has(d, k)
    THEN [i \in 1..Len(d) |-> IF d[i].key = k THEN [key |-> k, value |-> v] ELSE d[i]]
    ELSE Append(d, [key |-> k, value |-> v])

\* del d[k]
Del(d, k) ==
    LET i == IndexOf(d, k)
    IN  SubSeq(d, 1, i - 1) \o SubSeq(d, i + 1, Len(d))

\* the mapping a dict denotes, order forgotten (dict equality in Python)
AsMap(d) == [k \in Keys(d) |-> Get(d, k)]

\* ------------------------------------------------------------ the store
\* save_prompts(): the whole mapping overwrites the file
SavePrompts(d) == [kind |-> "json", data |-> d]

\* "Ensure command starts with /"
Normalize(command) ==
    IF StartsWith(command, Slash) THEN command ELSE Slash \o command

\* The duplicate check with the comparison of keys left out (a faulty variant).
CommandExistsNever(d, command, except) == FALSE

\* "Check if command already exists": some entry other than the one keyed
\* `except` has this command.
CommandExists(d, command, except) ==
    \E i \in 1..Len(d) : d[i].value.command = command /\ d[i].key # except

\* what a handler hands back: its status, the dict and file it leaves, and
\* whether it called save_prompts
Outcome(status, d, f, written) ==
    [status |-> status, data |-> d, file |-> f, written |-> written]

\* setup(), given the file found on disk
SetupOutcome(f) ==
    IF f.kind # "absent"
    THEN IF f.kind = "json"
         THEN Outcome("ok", f.data, f, FALSE)
         ELSE Outcome("ok", <<>>, f, FALSE)
    ELSE Outcome("ok", <<>>, SavePrompts(<<>>), TRUE)

\* create_prompt(title, command, content); t1, t2 are the two readings of
\* datetime.now()
CreatePrompt(d, f, title, command, content, t1, t2) ==
    IF title = "" \/ command = <<>> \/ content = <<>>
    THEN Outcome("required", d, f, FALSE)
    ELSE LET cmd == Normalize(command)
         IN  IF CommandExists(d, cmd, title)
             THEN Outcome("duplicate", d, f, FALSE)
             ELSE LET nd == Put(d, title,
                                [title |-> title, command |-> cmd,
                                 content |-> content, creator |-> current_user,
                                 created |-> t1, modified |-> t2])
                  IN  Outcome("ok", nd, SavePrompts(nd), TRUE)

\* update_prompt that copies the entry to the new key and forgets to remove
\* the old one (a faulty variant).
UpdatePromptKeepOld(d, f, selected, title, command, content, t) ==
    IF selected = "" \/ ~Has(d, selected)
    THEN Outcome("select", d, f, FALSE)
    ELSE IF title = "" \/ command = <<>> \/ content = <<>>
    THEN Outcome("required", d, f, FALSE)
    ELSE LET cmd == Normalize(command)
         IN  IF CommandExists(d, cmd, selected)
             THEN Outcome("duplicate", d, f, FALSE)
             ELSE LET moved == Put(d, title, Get(d, selected))
                      nd == Put(moved, title,
                                [Get(moved, title) EXCEPT
                                   !.title = title, !.command = cmd,
                                   !.content = content, !.modified = t])
                  IN  Outcome("ok", nd, SavePrompts(nd), TRUE)

\* update_prompt(selected_prompt, title, command, content); t is the reading
\* of datetime.now()
UpdatePrompt(d, f, selected, title, command, content, t) ==
    IF selected = "" \/ ~Has(d, selected)
    THEN Outcome("select", d, f, FALSE)
    ELSE IF title = "" \/ command = <<>> \/ content = <<>>
    THEN Outcome("required", d, f, FALSE)
    ELSE LET cmd == Normalize(command)
         IN  IF CommandExists(d, cmd, selected)
             THEN Outcome("duplicate", d, f, FALSE)
             ELSE LET moved == IF selected # title
                               THEN Put(Del(d, selected), title, Get(d, selected))
                               ELSE d
                      nd == Put(moved, title,
                                [Get(moved, title) EXCEPT
                                   !.title = title, !.command = cmd,
                                   !.content = content, !.modified = t])
                  IN  Outcome("ok", nd, SavePrompts(nd), TRUE)

\* delete_prompt that saves before it looks at the selection (a faulty variant).
DeletePromptSaveAlways(d, f, selected) ==
    IF selected = "" \/ ~Has(d, selected)
    THEN Outcome("select", d, SavePrompts(d), TRUE)
    ELSE LET nd == Del(d, selected)
         IN  Outcome("ok", nd, SavePrompts(nd), TRUE)

\* delete_prompt(selected_prompt)
DeletePrompt(d, f, selected) ==
    IF selected = "" \/ ~Has(d, selected)
    THEN Outcome("select", d, f, FALSE)
    ELSE LET nd == Del(d, selected)
         IN  Outcome("ok", nd, SavePrompts(nd), TRUE)

\* --------------------------------------------------------- the resolver
\* parts = text.split(' ', 1)
ChatParts(text) == Split1(text, Space)

\* command = parts[0]
ChatCommand(text) == ChatParts(text)[1]

\* user_input = parts[1] if len(parts) > 1 else ""
ChatUserInput(text) ==
    IF Len(ChatParts(text)) > 1 THEN ChatParts(text)[2] ELSE <<>>

\* positions of the prompts the loop's test accepts
ChatMatches(d, text) ==
    {i \in 1..Len(d) : d[i].value.command = ChatCommand(text)}

\* the first prompt, in iteration order, that the loop returns from
ChatPrompt(d, text) ==
    d[CHOOSE i \in ChatMatches(d, text) : \A j \in ChatMatches(d, text) : i <= j].value

\* the text built from the matched prompt
ChatContent(prompt_content, user_input) ==
    IF Contains(prompt_content, InputToken) /\ user_input # <<>>
    THEN Replace(prompt_content, InputToken, user_input)
    ELSE IF user_input # <<>>
    THEN prompt_content \o BlankLine \o user_input
    ELSE prompt_content

\* chat_input_modifier that hands back the visible text twice (a faulty variant).
ChatInputModifierVisibleTwice(d, text, visible_text) ==
    IF StartsWith(text, Slash) /\ ChatMatches(d, text) # {}
    THEN LET prompt_content ==
                 ChatContent(ChatPrompt(d, text).content, ChatUserInput(text))
         IN  <<prompt_content, prompt_content>>
    ELSE <<visible_text, visible_text>>

\* chat_input_modifier(text, visible_text, state): the pair it returns
ChatInputModifier(d, text, visible_text) ==
    IF StartsWith(text, Slash) /\ ChatMatches(d, text) # {}
    THEN LET prompt_content ==
                 ChatContent(ChatPrompt(d, text).content, ChatUserInput(text))
         IN  <<prompt_content, prompt_content>>
    ELSE <<text, visible_text>>

\* ----------------------------------------------------------- input sets
TitleInputs == {"", "A", "B"}

CommandInputs ==
    { <<>>,
      <<"x">>,
      <<"/", "x">>,
      <<"/", "x", " ", "y">> }

ContentInputs ==
    { <<>>,
      <<"c">>,
      <<"{", "i", "n", "{", "i", "n", "p", "u", "t", "}", "-">> \o InputToken }

TextInputs ==
    { <<"h", "i">>,
      <<"/", "x">>,
      <<"/", "x", " ">>,
      <<"/", "x", " ", "y">>,
      <<"/", "x", " ", "a", " ", "b">>,
      <<"/", "x", "\t", "y">>,
      <<"/", "x", "\n", "y", " ", "z">>,
      <<"/", "x", " ">> \o InputToken }

VisibleInputs == { <<"v">> }

\* a file left by an earlier run: one prompt, written by another user
EarlierFile ==
    SavePrompts(<< [key |-> "A",
                    value |-> [title |-> "A", command |-> <<"/", "x">>,
                               content |-> <<"c">>, creator |-> "other_user",
                               created |-> 0, modified |-> 0]] >>)

InitialFiles ==
    { [kind |-> "absent", data |-> <<>>],
      [kind |-> "corrupt", data |-> <<>>],
      SavePrompts(<<>>),
      EarlierFile }

\* ---------------------------------------------------------------- state
\* the module has been imported: prompts_data = {}, setup() not yet called
Init ==
    /\ prompts_data = <<>>
    /\ file \in InitialFiles
    /\ clock = 0
    /\ phase = "imported"
    /\ file_written = FALSE
    /\ last = [op |-> "import", status |-> "ok"]

Setup ==
    /\ phase = "imported"
    /\ LET r == SetupOutcome(file)
       IN  /\ prompts_data' = r.data
           /\ file' = r.file
           /\ file_written' = r.written
    /\ phase' = "ready"
    /\ last' = [op |-> "setup", status |-> "ok"]
    /\ UNCHANGED clock

Create ==
    /\ phase = "ready"
    /\ \E title \in TitleInputs, command \in CommandInputs,
          content \in ContentInputs, t2 \in {clock + 1, clock + 2} :
         LET r == CreatePrompt(prompts_data, file, title, command, content,
                               clock + 1, t2)
         IN  /\ IF r.status = "ok" THEN t2 <= MaxClock ELSE t2 = clock + 1
             /\ prompts_data' = r.data
             /\ file' = r.file
             /\ file_written' = r.written
             /\ clock' = IF r.status = "ok" THEN t2 ELSE clock
             /\ last' = [op |-> "create", status |-> r.status, title |-> title,
                         stored |-> Normalize(command), content |-> content]
    /\ UNCHANGED phase

Update ==
    /\ phase = "ready"
    /\ \E selected \in TitleInputs, title \in TitleInputs,
          command \in CommandInputs, content \in ContentInputs :
         LET r == UpdatePrompt(prompts_data, file, selected, title, command,
                               content, clock + 1)
         IN  /\ r.status = "ok" => clock + 1 <= MaxClock
             /\ prompts_data' = r.data
             /\ file' = r.file
             /\ file_written' = r.written
             /\ clock' = IF r.status = "ok" THEN clock + 1 ELSE clock
             /\ last' = [op |-> "update", status |-> r.status,
                         selected |-> selected, title |-> title]
    /\ UNCHANGED phase

Delete ==
    /\ phase = "ready"
    /\ \E selected \in TitleInputs :
         LET r == DeletePrompt(prompts_data, file, selected)
         IN  /\ prompts_data' = r.data
             /\ file' = r.file
             /\ file_written' = r.written
             /\ last' = [op |-> "delete", status |-> r.status,
                         selected |-> selected]
    /\ UNCHANGED <<phase, clock>>

Chat ==
    /\ phase = "ready"
    /\ \E text \in TextInputs : \E visible_text \in {text} \cup VisibleInputs :
         LET matched == StartsWith(text, Slash) /\ ChatMatches(prompts_data, text) # {}
         IN  last' = [op |-> "chat", status |-> "ok", text |-> text,
                      visible_text |-> visible_text,
                      slash |-> StartsWith(text, Slash),
                      command |-> ChatCommand(text),
                      user_input |-> ChatUserInput(text),
                      matched |-> matched,
                      content |-> IF matched
                                  THEN ChatPrompt(prompts_data, text).content
                                  ELSE <<>>,
                      ret |-> ChatInputModifier(prompts_data, text, visible_text)]
    /\ file_written' = FALSE
    /\ UNCHANGED <<prompts_data, file, clock, phase>>

Next == Setup \/ Create \/ Update \/ Delete \/ Chat

Spec == Init /\ [][Next]_vars

\* ================================================================ claims
Mutations == {"create", "update", "delete"}

\* C1: no two distinct entries of the mapping hold the same command string.
C1_UniqueCommands ==
    \A i, j \in 1..Len(prompts_data) :
        i # j => prompts_data[i].value.command # prompts_data[j].value.command

\* a colliding command has just been refused while two prompts are stored
C1_Witness ==
    /\ Len(prompts_data) = 2
    /\ last.op \in {"create", "update"}
    /\ last.status = "duplicate"

\* C2: when the store holds exactly the prompt a create has just inserted, a
\* second create that supplies every field and whose command normalizes to
\* the same string is refused as a duplicate and leaves the store as it was.
C2_SecondCreateRefused ==
    [][ ( /\ last.op = "create" /\ last.status = "ok"
          /\ Len(prompts_data) = 1
          /\ last'.op = "create"
          /\ last'.title # "" /\ last'.content # <<>>
          /\ last'.stored = last.stored )
        => ( /\ last'.status = "duplicate"
             /\ prompts_data' = prompts_data ) ]_vars

\* C3: a successful create inserts under a title that was not a key, grows
\* the store by exactly one entry and leaves every earlier entry as it was.
C3_CreateInsertsNew ==
    [][ (last'.op = "create" /\ last'.status = "ok")
        => ( /\ ~Has(prompts_data, last'.title)
             /\ Len(prompts_data') = Len(prompts_data) + 1
             /\ \A k \in Keys(prompts_data) :
                    /\ Has(prompts_data', k)
                    /\ Get(prompts_data', k) = Get(prompts_data, k) ) ]_vars

\* C4: a create, update or delete that returns an error leaves the mapping
\* as it was and does not write the file.
C4_ErrorsLeaveStateAlone ==
    [][ (last'.op \in Mutations /\ last'.status # "ok")
        => ( /\ prompts_data' = prompts_data
             /\ file' = file
             /\ ~file_written' ) ]_vars

\* an update has been refused for an empty field while two prompts are stored
C4_Witness ==
    /\ last.op = "update"
    /\ last.status = "required"
    /\ Len(prompts_data) = 2

\* C5: after a successful update under a different title the old key is gone,
\* the prompt is found under the new title with the creator and created it
\* had, and its modified is later than before.
C5_RenameMovesEntry ==
    [][ ( /\ last'.op = "update" /\ last'.status = "ok"
          /\ last'.selected # last'.title )
        => ( /\ ~Has(prompts_data', last'.selected)
             /\ Has(prompts_data', last'.title)
             /\ LET old == Get(prompts_data, last'.selected)
                    new == Get(prompts_data', last'.title)
                IN  /\ new.creator = old.creator
                    /\ new.created = old.created
                    /\ new.modified > old.modified ) ]_vars

\* a prompt written by another user has just been renamed
C5_Witness ==
    /\ last.op = "update" /\ last.status = "ok"
    /\ last.selected # last.title
    /\ Has(prompts_data, last.title)
    /\ Get(prompts_data, last.title).creator # current_user

\* C6: right after a successful create that stored command k with content c,
\* chat_input_modifier called with text k returns c as the resolved text.
C6_CreateThenResolve ==
    [][ ( /\ last.op = "create" /\ last.status = "ok"
          /\ last'.op = "chat"
          /\ last'.text = last.stored )
        => last'.ret[1] = last.content ]_vars

\* the positions of text holding one of the separator characters
SeparatorsIn(text, seps) == {i \in 1..Len(text) : text[i] \in seps}

\* command and remainder are the parts of text before and after its first
\* separator character, if it has one
SplitsAtFirst(text, seps, command, remainder) ==
    IF SeparatorsIn(text, seps) = {}
    THEN command = text /\ remainder = <<>>
    ELSE \E i \in SeparatorsIn(text, seps) :
            /\ \A j \in SeparatorsIn(text, seps) : i <= j
            /\ command = SubSeq(text, 1, i - 1)
            /\ remainder = SubSeq(text, i + 1, Len(text))

\* the resolver matched exactly when some stored command equals its command
MatchesByEquality ==
    last.matched <=>
        \E i \in 1..Len(prompts_data) :
            prompts_data[i].value.command = last.command

\* C7 as stated: for a text starting with '/', the command ends at the first
\* whitespace character (space, tab or newline), the remainder is what
\* follows it, and the command is matched by exact equality.
C7_SplitAtWhitespace ==
    (last.op = "chat" /\ last.slash)
        => /\ SplitsAtFirst(last.text, {" ", "\t", "\n"},
                            last.command, last.user_input)
           /\ MatchesByEquality

\* C7 as amended: for a text starting with '/', the command ends at the first
\* space character only (a tab or a newline is part of the command), the
\* remainder is what follows that space, and the command is matched by exact
\* equality.
C7_SplitAtSpace ==
    (last.op = "chat" /\ last.slash)
        => /\ SplitsAtFirst(last.text, {" "}, last.command, last.user_input)
           /\ MatchesByEquality

\* a text whose first whitespace character is not a space has been resolved
C7_Witness ==
    /\ last.op = "chat" /\ last.slash
    /\ \E i \in 1..Len(last.command) : last.command[i] \in {"\t", "\n"}
    /\ last.user_input # <<>>

\* the positions of content where the placeholder token starts
TokenStarts(content) ==
    {i \in 1..Len(content) :
        /\ i + Len(InputToken) - 1 <= Len(content)
        /\ SubSeq(content, i, i + Len(InputToken) - 1) = InputToken}

\* what position i of content contributes once every token is replaced
Contribution(content, remainder, i) ==
    IF i \in TokenStarts(content) THEN remainder
    ELSE IF \E s \in TokenStarts(content) : s < i /\ i < s + Len(InputToken)
    THEN <<>>
    ELSE <<content[i]>>

RECURSIVE Substituted(_, _, _)
Substituted(content, remainder, upto) ==
    IF upto = 0 THEN <<>>
    ELSE Substituted(content, remainder, upto - 1)
         \o Contribution(content, remainder, upto)

\* the resolved text the three cases prescribe
Prescribed(content, remainder) ==
    IF remainder # <<>> /\ TokenStarts(content) # {}
    THEN Substituted(content, remainder, Len(content))
    ELSE IF remainder # <<>>
    THEN content \o <<"\n", "\n">> \o remainder
    ELSE content

\* C8: on a match both returned values are: the content with every '{input}'
\* replaced by the remainder (remainder non-empty, token present); content,
\* a blank line, the remainder (remainder non-empty, no token); the content
\* itself (remainder empty).
C8_ResolvedContent ==
    (last.op = "chat" /\ last.matched)
        => last.ret = << Prescribed(last.content, last.user_input),
                         Prescribed(last.content, last.user_input) >>

\* a matched prompt holding the token more than once met a non-empty remainder
C8_Witness ==
    /\ last.op = "chat" /\ last.matched
    /\ last.user_input # <<>>
    /\ Cardinality(TokenStarts(last.content)) > 1

\* no stored command matches the call recorded in last
NoCommandMatches ==
    \/ ~StartsWith(last.text, Slash)
    \/ \A i \in 1..Len(prompts_data) :
           prompts_data[i].value.command # last.command

\* C9 as stated: when no stored command matches, both returned values equal
\* the input text.
C9_UnmatchedReturnsTextTwice ==
    (last.op = "chat" /\ NoCommandMatches)
        => last.ret = <<last.text, last.text>>

\* C9 as amended: when no stored command matches, the first returned value
\* is the input text and the second is the visible_text argument, each
\* unchanged.
C9_UnmatchedPassesThrough ==
    (last.op = "chat" /\ NoCommandMatches)
        => last.ret = <<last.text, last.visible_text>>

\* an unmatched slash text came with a different visible text, prompts stored
C9_Witness ==
    /\ last.op = "chat" /\ NoCommandMatches
    /\ last.slash
    /\ last.visible_text # last.text
    /\ prompts_data # <<>>

\* C10: once setup() has run, the file holds a mapping and it equals the
\* mapping in memory.
C10_FileMirrorsMemory ==
    phase = "ready"
        => /\ file.kind = "json"
           /\ AsMap(file.data) = AsMap(prompts_data)

\* C11: a successful update leaves the number of entries as it was and every
\* entry other than the selected one present and unchanged, also when the
\* new title is already the key of a different prompt.
C11_UpdateKeepsOthers ==
    [][ (last'.op = "update" /\ last'.status = "ok")
        => ( /\ Len(prompts_data') = Len(prompts_data)
             /\ \A k \in Keys(prompts_data) \ {last'.selected} :
                    /\ Has(prompts_data', k)
                    /\ Get(prompts_data', k) = Get(prompts_data, k) ) ]_vars

====
